---- MODULE Spec2Model ----
(***************************************************************************)
(* Model of the agent-service HTTP gateway (packages/agent-service):       *)
(*   - AgentService.chat, the aggregator of the runtime's event stream,    *)
(*   - the Fastify request lifecycle of POST /api/v1/chat and              *)
(*     POST /api/v1/chat/stream (timeout hook, rate-limit hook, schema     *)
(*     validation, authMiddleware, route handler),                         *)
(*   - the rate limiter registered with rateLimitOptions.                  *)
(* Three specifications share the actions:                                 *)
(*   Spec      the request lifecycle, requests running concurrently,       *)
(*   SpecAgg   AgentService.chat on one admitted request, all event kinds, *)
(*   SpecRate  the rate-limit hook under a load of many requests.          *)
(* Texts are TLA+ strings (Len, \o, Head, Tail are those of the program's  *)
(* strings); an absent or undefined JavaScript value is Undefined.         *)
(***************************************************************************)
EXTENDS Integers, Sequences, FiniteSets, TLC

VARIABLES
    now,          \* Date.now(), in milliseconds
    env,          \* the configuration loaded at startup (config/env.ts) and the build
    boot,         \* the process: how far startup got, and the secrets of process.env
    store,        \* the rate limiter's counters: key -> [current, iterationStartMs]
    pc,           \* per request: the lifecycle stage it is at
    request,      \* per request: ip, route, headers.authorization, body
    timer,        \* per request: the setTimeout of timeoutHandler
    closed,       \* per request: request.raw has emitted 'close'
    auth,         \* per request: request.auth
    verifyCalls,  \* per request: the tokens verifyToken was called with (history)
    responses,    \* per request: the replies written to the client, in order
    dropped,      \* per request: the writes attempted after the reply was sent
    prompt,       \* per request: chat()'s local prompt
    fullResponse, \* per request: chat()'s local fullResponse
    toolCalls,    \* per request: chat()'s local toolCalls
    events,       \* per request: the runtime events consumed so far (history)
    queryCalls,   \* per request: how many times query() was invoked
    raised,       \* per request: what the stream threw, if it did
    admitted,     \* SpecRate: per key, the times (within the trailing window) of the requests let through
    chatSeen,     \* SpecRate: per key, POST /chat requests in the key's current window
    lastLimit     \* SpecRate: the outcome of the latest rate-limit hook run

vars == <<now, env, boot, store, pc, request, timer, closed, auth, verifyCalls, responses, dropped,
          prompt, fullResponse, toolCalls, events, queryCalls, raised,
          admitted, chatSeen, lastLimit>>

reqVars == <<pc, request, timer, closed, auth, verifyCalls, responses, dropped,
             prompt, fullResponse, toolCalls, events, queryCalls, raised>>

rateVars == <<admitted, chatSeen, lastLimit>>

(***************************************************************************)
(* Bounds of the model.                                                    *)
(***************************************************************************)
MaxEvents == 4
MaxHttpEvents == 2
MaxMsgs == 2
MaxTicks == 2
MaxArrivals == 22
SmallMaxRequests == 2
MaxLoopback == 3

\* the request slots; Spec and SpecAgg run request 1
AllReqs == {1, 2}
Reqs == {1}

(***************************************************************************)
(* JavaScript values.                                                      *)
(***************************************************************************)
Undefined == "<undefined>"

\* JavaScript truthiness of a string-or-undefined value.
Truthy(v) == v # Undefined /\ v # ""

Last(s) == s[Len(s)]

(***************************************************************************)
(* types.ts: ToolCallRecord, and the runtime's events as chat() reads them *)
(***************************************************************************)
ToolNames == {"A", "B"}
ToolInputs == {"in1"}
ToolOutputs == {"o1"}
ToolErrors == {"e2"}

TextBlock(t) == [kind |-> "text", text |-> t]
OtherBlock == [kind |-> "tool_use", text |-> Undefined]

Event(type, blocks, toolName, input, output, error) ==
    [type |-> type, blocks |-> blocks, toolName |-> toolName,
     input |-> input, output |-> output, error |-> error]

AssistantEvent(blocks) == Event("assistant", blocks, Undefined, Undefined, Undefined, Undefined)
ToolStart(n, i) == Event("tool_start", <<>>, n, i, Undefined, Undefined)
ToolEnd(n, o, e) == Event("tool_end", <<>>, n, Undefined, o, e)
OtherEvent(t) == Event(t, <<>>, Undefined, Undefined, Undefined, Undefined)

ContentEvents ==
    { AssistantEvent(<<TextBlock("ab")>>),
      AssistantEvent(<<TextBlock("c"), OtherBlock, TextBlock("ab")>>) }
ToolStartEvents == { ToolStart(n, i) : n \in ToolNames, i \in ToolInputs }
ToolEndEvents ==
    { ToolEnd(n, o, Undefined) : n \in ToolNames, o \in ToolOutputs }
    \cup { ToolEnd(n, Undefined, e) : n \in ToolNames, e \in ToolErrors }
\* events of other kinds, and one without a type
OtherEvents == { OtherEvent("result"), OtherEvent(Undefined) }

\* every kind of event the runtime can yield (SpecAgg)
AllEvents == ContentEvents \cup ToolStartEvents \cup ToolEndEvents \cup OtherEvents

\* the events of the request-lifecycle specification
HttpEvents == { AssistantEvent(<<TextBlock("ab")>>), ToolStart("A", "in1"),
                ToolEnd("A", "o1", Undefined) }

\* the messages an event sequence can raise
\* what the runtime's stream throws: an Error with a message, or a value that is no Error
Thrown(isError, message) == [thrown |-> TRUE, isError |-> isError, message |-> message]

NoThrow == [thrown |-> FALSE, isError |-> FALSE, message |-> Undefined]

RuntimeErrors ==
    {Thrown(TRUE, "boom"), Thrown(TRUE, "rate limited upstream"), Thrown(FALSE, Undefined)}

(***************************************************************************)
(* AgentService (services/agent-service.ts)                                *)
(***************************************************************************)
\* a template literal's ${v}
Interp(v) == IF v = Undefined THEN "undefined" ELSE v

Whitespace == {" ", "\n", "\t"}

RECURSIVE TrimStart(_)
TrimStart(s) ==
    IF Len(s) > 0 /\ Head(s) \in Whitespace THEN TrimStart(Tail(s)) ELSE s

RECURSIVE TrimEnd(_)
TrimEnd(s) ==
    IF Len(s) > 0 /\ SubSeq(s, Len(s), Len(s)) \in Whitespace
    THEN TrimEnd(SubSeq(s, 1, Len(s) - 1))
    ELSE s

\* String.prototype.trim
Trim(s) == TrimEnd(TrimStart(s))

\* one iteration of buildPrompt's loop: the switch on msg.role
PromptBlock(msg) ==
    IF msg.role \in {"system", "user", "assistant"}
    THEN "<" \o msg.role \o ">" \o Interp(msg.content) \o "</" \o msg.role \o ">\n\n"
    ELSE ""

RECURSIVE PromptOf(_)
PromptOf(messages) ==
    IF messages = <<>> THEN ""
    ELSE PromptBlock(Head(messages)) \o PromptOf(Tail(messages))

buildPrompt(messages) == Trim(PromptOf(messages))

\* mutant: Math.floor(text.length / 4)
estimateTokensFloor(text) == Len(text) \div 4

\* Math.ceil(text.length / 4)
estimateTokens(text) == (Len(text) + 3) \div 4

\* Math.random().toString(36).substring(2, 11)
RandomSuffixes == {"k3x9q2m1z"}

generateSessionId(t, rnd) == "sess_" \o ToString(t) \o "_" \o rnd

\* the inner loop over assistantMsg.content: the text of the blocks that have one
RECURSIVE BlocksText(_)
BlocksText(blocks) ==
    IF blocks = <<>> THEN ""
    ELSE (IF Head(blocks).kind = "text" THEN Head(blocks).text ELSE "")
         \o BlocksText(Tail(blocks))

\* mutant: a fragment equal to the end of the buffer is not appended again
AppendContentDedup(full, e) ==
    IF e.type = "assistant"
    THEN LET t == BlocksText(e.blocks)
         IN  IF Len(full) >= Len(t) /\ SubSeq(full, Len(full) - Len(t) + 1, Len(full)) = t
             THEN full ELSE full \o t
    ELSE full

\* mutant: an event of an unknown kind leaves its kind in the buffer
AppendContentEchoKind(full, e) ==
    IF e.type = "assistant" THEN full \o BlocksText(e.blocks)
    ELSE IF e.type \notin {"tool_start", "tool_end"} THEN full \o Interp(e.type)
    ELSE full

\* fullResponse after the loop body has run on event e
AppendContent(full, e) ==
    IF e.type = "assistant" THEN full \o BlocksText(e.blocks) ELSE full

NewToolCall(e) ==
    [name |-> e.toolName, input |-> e.input, output |-> Undefined, error |-> Undefined]

\* toolCalls.find(tc => tc.name === message.toolName): the index found, 0 for none
FindByName(calls, name) ==
    IF \E i \in 1..Len(calls) : calls[i].name = name
    THEN CHOOSE i \in 1..Len(calls) :
            /\ calls[i].name = name
            /\ \A j \in 1..(i - 1) : calls[j].name # name
    ELSE 0

\* the tool_end branch
TrackToolEnd(calls, e) ==
    LET i == FindByName(calls, e.toolName) IN
    IF i = 0 THEN calls
    ELSE IF Truthy(e.error)
         THEN [calls EXCEPT ![i].error = e.error]
         ELSE [calls EXCEPT ![i].output = e.output]

\* mutant: a tool_start whose name already has a record adds none
TrackToolCallsOncePerName(calls, e) ==
    IF e.type = "tool_start"
    THEN IF FindByName(calls, e.toolName) = 0 THEN Append(calls, NewToolCall(e)) ELSE calls
    ELSE IF e.type = "tool_end" THEN TrackToolEnd(calls, e)
    ELSE calls

\* toolCalls after the loop body has run on event e
TrackToolCalls(calls, e) ==
    IF e.type = "tool_start" THEN Append(calls, NewToolCall(e))
    ELSE IF e.type = "tool_end" THEN TrackToolEnd(calls, e)
    ELSE calls

\* mutant: toolCalls is returned as it is, empty or not
ChatResponseOfWithToolCalls(r, rnd) ==
    LET sid == request[r].body.sessionId
    IN  [content |-> fullResponse[r], toolCalls |-> toolCalls[r],
         usage |-> [inputTokens |-> estimateTokens(prompt[r]),
                    outputTokens |-> estimateTokens(fullResponse[r])],
         sessionId |-> IF Truthy(sid) THEN sid ELSE generateSessionId(now, rnd)]

\* the value chat() returns at the end of the stream
ChatResponseOf(r, rnd) ==
    LET sid == request[r].body.sessionId
        base == [content |-> fullResponse[r],
                 usage |-> [inputTokens |-> estimateTokens(prompt[r]),
                            outputTokens |-> estimateTokens(fullResponse[r])],
                 sessionId |-> IF Truthy(sid) THEN sid ELSE generateSessionId(now, rnd)]
    IN  IF Len(toolCalls[r]) > 0
        THEN [content |-> base.content, toolCalls |-> toolCalls[r],
              usage |-> base.usage, sessionId |-> base.sessionId]
        ELSE base

(***************************************************************************)
(* Requests: what a client can send                                        *)
(***************************************************************************)
LoopbackIp == "127.0.0.1"
Ips == {LoopbackIp, "10.0.0.1"}

\* the address whose budget is used up when the lifecycle specification starts
BusyIp == "10.0.0.2"
HttpIps == {"10.0.0.1", BusyIp}

\* the Authorization header (Undefined: no header)
GoodHeader == "Bearer tokGood"
AuthHeaders == {Undefined, "", "Basic tokGood", "Bearer", "Bearer ", "Bearer tokGood x",
                GoodHeader, "Bearer tokExpired", "Bearer tokBad"}

Msg(role, content) == [role |-> role, content |-> content]

\* messages as a client can send them: well-formed ones and one of each defect
GoodMsgs == {Msg("user", "hi"), Msg("system", "be brief")}
BadMsgs == {Msg(Undefined, "hi"), Msg("", "hi"), Msg("tool", "hi"),
            Msg("user", Undefined), Msg("user", "")}
MsgSamples == GoodMsgs \cup BadMsgs

SessionIds == {Undefined, "", "s1"}

RECURSIVE SeqsUpTo(_, _)
SeqsUpTo(S, n) ==
    IF n = 0 THEN {<<>>}
    ELSE LET shorter == SeqsUpTo(S, n - 1)
         IN  shorter \cup { Append(q, x) : q \in shorter, x \in S }

Body(ms, sid) == [messages |-> ms, sessionId |-> sid]

\* a body with no messages property
NoMessagesBody == [sessionId |-> Undefined]

\* every list of up to MaxMsgs sample messages, without a session id
PlainBodies ==
    {NoMessagesBody} \cup { Body(ms, Undefined) : ms \in SeqsUpTo(MsgSamples, MaxMsgs) }

\* one body of each kind: accepted, and rejected for each reason
CoreBodies == { Body(<<Msg("user", "hi")>>, Undefined), NoMessagesBody,
                Body(<<>>, Undefined), Body(<<Msg("tool", "hi")>>, Undefined),
                Body(<<Msg("user", "")>>, Undefined) }

\* an accepted body with each kind of session id
SessionBodies == { Body(<<Msg("user", "hi")>>, sid) : sid \in SessionIds }

\* the requests of the lifecycle specification: from every address, every header
\* with one body of each kind and every session id; and with a good credential from
\* an address within its budget, every body
ChatRequests ==
    { [ip |-> ip, route |-> "/chat", authorization |-> hb[1], body |-> hb[2]] :
        ip \in HttpIps,
        hb \in (AuthHeaders \X CoreBodies) \cup ({GoodHeader} \X SessionBodies) }
    \cup { [ip |-> "10.0.0.1", route |-> "/chat", authorization |-> GoodHeader,
            body |-> b] : b \in PlainBodies }

StreamRequests ==
    { [ip |-> ip, route |-> "/chat/stream", authorization |-> h,
       body |-> NoMessagesBody] : ip \in HttpIps, h \in AuthHeaders }

Requests == ChatRequests \cup StreamRequests

NoRequest == [ip |-> Undefined, route |-> Undefined, authorization |-> Undefined,
              body |-> [sessionId |-> Undefined]]

(***************************************************************************)
(* Fastify's Reply                                                         *)
(***************************************************************************)
Reply(status, body) == [statusCode |-> status, body |-> body]

\* reply.sent
Sent(r) == responses[r] # <<>>

\* reply.status(code).send(body): the first send is written, a send on a reply
\* that was already sent is dropped with a warning
ReplySend(r, status, body) ==
    IF Sent(r)
    THEN /\ dropped' = [dropped EXCEPT ![r] = @ + 1]
         /\ UNCHANGED responses
    ELSE /\ responses' = [responses EXCEPT ![r] = Append(@, Reply(status, body))]
         /\ UNCHANGED dropped

(***************************************************************************)
(* middleware/errorHandler.ts                                              *)
(***************************************************************************)
ErrorObject(name, message, statusCode, validation) ==
    [name |-> name, message |-> message, statusCode |-> statusCode,
     validation |-> validation]

\* the reply errorHandler sends for an error
errorHandlerReply(error, nodeEnv, t) ==
    IF error.validation
    THEN Reply(400, [error |-> "Validation Error", message |-> error.message,
                     statusCode |-> 400, timestamp |-> t, details |-> TRUE])
    ELSE LET statusCode == IF error.statusCode # 0 THEN error.statusCode ELSE 500
             message == IF nodeEnv = "production" /\ statusCode = 500
                        THEN "Internal Server Error"
                        ELSE IF Truthy(error.message) THEN error.message
                             ELSE "An unexpected error occurred"
         IN  Reply(statusCode,
                   [error |-> IF Truthy(error.name) THEN error.name ELSE "Error",
                    message |-> message, statusCode |-> statusCode, timestamp |-> t])

RequestTimeoutMs == 30000

TimeoutReplyBody(t) ==
    [error |-> "Request Timeout", message |-> "Request processing timed out",
     statusCode |-> 408, timestamp |-> t]

(***************************************************************************)
(* middleware/auth.ts                                                      *)
(***************************************************************************)
\* String.prototype.split(' ')
RECURSIVE SplitSpace(_, _, _)
SplitSpace(s, cur, acc) ==
    IF Len(s) = 0 THEN Append(acc, cur)
    ELSE IF Head(s) = " " THEN SplitSpace(Tail(s), "", Append(acc, cur))
         ELSE SplitSpace(Tail(s), cur \o Head(s), acc)

Split(s) == SplitSpace(s, "", <<>>)

NoAuth == [set |-> FALSE, openid |-> Undefined]
AuthContext(openid) == [set |-> TRUE, openid |-> openid]

\* jwt.verify(token, env.jwtSecret): the claims of a token signed with the secret and
\* not expired, TokenExpiredError for an expired one, JsonWebTokenError for the rest
JwtVerify(token) ==
    IF token = "tokGood" THEN [ok |-> TRUE, openid |-> "u1", error |-> Undefined]
    ELSE IF token = "tokExpired"
         THEN [ok |-> FALSE, openid |-> Undefined, error |-> "TokenExpiredError"]
         ELSE [ok |-> FALSE, openid |-> Undefined, error |-> "JsonWebTokenError"]

\* verifyToken: the AuthContext, or the message of the Error it throws
verifyToken(token) ==
    LET v == JwtVerify(token) IN
    IF v.ok THEN [ok |-> TRUE, auth |-> AuthContext(v.openid), message |-> Undefined]
    ELSE [ok |-> FALSE, auth |-> NoAuth,
          message |-> IF v.error = "TokenExpiredError" THEN "Token expired"
                      ELSE "Invalid token"]

UnauthorizedBody(message, t) ==
    [error |-> "Unauthorized", message |-> message, statusCode |-> 401, timestamp |-> t]

\* mutant: only parts[0] is checked, not parts.length
authOutcomeSchemeOnly(authHeader) ==
    IF ~Truthy(authHeader)
    THEN [ok |-> FALSE, auth |-> NoAuth, message |-> "Missing Authorization header",
          verified |-> <<>>]
    ELSE LET parts == Split(authHeader) IN
         IF Len(parts) < 2 \/ parts[1] # "Bearer"
         THEN [ok |-> FALSE, auth |-> NoAuth,
               message |-> "Invalid Authorization header format. Use: Bearer <token>",
               verified |-> <<>>]
         ELSE LET v == verifyToken(parts[2])
              IN  [ok |-> v.ok, auth |-> v.auth, message |-> v.message,
                   verified |-> <<parts[2]>>]

\* authMiddleware's outcome on a header: the auth context it attaches, or the
\* message of the 401 it sends
authOutcome(authHeader) ==
    IF ~Truthy(authHeader)
    THEN [ok |-> FALSE, auth |-> NoAuth, message |-> "Missing Authorization header",
          verified |-> <<>>]
    ELSE LET parts == Split(authHeader) IN
         IF Len(parts) # 2 \/ parts[1] # "Bearer"
         THEN [ok |-> FALSE, auth |-> NoAuth,
               message |-> "Invalid Authorization header format. Use: Bearer <token>",
               verified |-> <<>>]
         ELSE LET v == verifyToken(parts[2])
              IN  [ok |-> v.ok, auth |-> v.auth, message |-> v.message,
                   verified |-> <<parts[2]>>]

(***************************************************************************)
(* config/env.ts: the values loadEnvConfig reads                           *)
(***************************************************************************)
DefaultMaxRequests == 100
DefaultWindowMs == 60000

EnvConfig(maxRequests, windowMs, nodeEnv, limiterThrows) ==
    [rateLimitMaxRequests |-> maxRequests, rateLimitWindowMs |-> windowMs,
     nodeEnv |-> nodeEnv, limiterThrows |-> limiterThrows]

(***************************************************************************)
(* middleware/rateLimit.ts and the limiter it configures                   *)
(***************************************************************************)
\* a JavaScript value that is a number, and one that is a string
JsNum(n) == [num |-> n]
JsStr(s) == [str |-> s]
IsNum(v) == "num" \in DOMAIN v

\* the long format of a duration ("1 minute", "30 seconds", "500 ms")
Plural(n, unit) == ToString(n) \o " " \o unit \o (IF n # 1 THEN "s" ELSE "")

MsFormat(ms) ==
    IF ms < 1000 THEN ToString(ms) \o " ms"
    ELSE IF ms < 60000 THEN Plural((2 * ms + 1000) \div 2000, "second")
         ELSE Plural((2 * ms + 60000) \div 120000, "minute")

\* rateLimitOptions: max, timeWindow and allowList as registered
\* mutant: no allowList
rateLimitOptionsNoAllowList ==
    [max |-> env.rateLimitMaxRequests, timeWindow |-> env.rateLimitWindowMs,
     allowList |-> {}]

rateLimitOptions ==
    [max |-> env.rateLimitMaxRequests, timeWindow |-> env.rateLimitWindowMs,
     allowList |-> {LoopbackIp}]

\* rateLimitConfigs.chat.max and rateLimitConfigs.health.max
ChatMax == 20
HealthMax == 100

rateLimitConfigs ==
    [chat |-> [max |-> ChatMax, timeWindow |-> 60 * 1000],
     health |-> [max |-> HealthMax, timeWindow |-> 60 * 1000]]

\* isRateLimitedKeyGenerator
isRateLimitedKeyGenerator(req, authContext) ==
    IF authContext.set /\ Truthy(authContext.openid) THEN authContext.openid ELSE req.ip

\* `${Math.round(context.after / 1000)}`
RoundedSeconds(after) ==
    IF IsNum(after) THEN ToString((after.num + 500) \div 1000) ELSE "NaN"

\* errorResponseBuilder
errorResponseBuilder(context, t) ==
    [error |-> "Too Many Requests",
     message |-> "Rate limit exceeded. Try again in " \o RoundedSeconds(context.after)
                 \o " seconds.",
     statusCode |-> 429, timestamp |-> t, retryAfter |-> context.after]

\* the limiter's counter of a key after one more request at time t: a new window
\* when the key has none or its window has elapsed, else one more in the window
Incr(st, key, t, timeWindow) ==
    IF key \notin DOMAIN st \/ st[key].iterationStartMs + timeWindow <= t
    THEN [current |-> 1, ttl |-> timeWindow, iterationStartMs |-> t]
    ELSE [current |-> st[key].current + 1,
          ttl |-> timeWindow - (t - st[key].iterationStartMs),
          iterationStartMs |-> st[key].iterationStartMs]

\* the limiter's verdict on a counter
ExceededOffByOne(entry, max) == entry.current > max + 1

Exceeded(entry, max) == entry.current > max

\* the context handed to errorResponseBuilder: after is the window in words,
\* ttl the milliseconds left in the key's window
LimitContext(entry, opts) ==
    [statusCode |-> 429, ban |-> FALSE, after |-> JsStr(MsFormat(opts.timeWindow)),
     max |-> opts.max, ttl |-> entry.ttl]

\* one run of the limiter's onRequest hook for a key at time t
RateLimitRun(key, t) ==
    LET opts == rateLimitOptions IN
    IF key \in opts.allowList
    THEN [store |-> store, limited |-> FALSE, counted |-> FALSE,
          context |-> LimitContext([ttl |-> 0], opts)]
    ELSE LET entry == Incr(store, key, t, opts.timeWindow) IN
         [store |-> (key :> entry) @@ store, limited |-> Exceeded(entry, opts.max),
          counted |-> TRUE, context |-> LimitContext(entry, opts)]

\* the reply of a limited request: the builder's object is sent as it is, or is
\* thrown and goes through errorHandler, according to the limiter's version
LimitedReply(context, t) ==
    LET built == errorResponseBuilder(context, t) IN
    IF env.limiterThrows
    THEN errorHandlerReply(ErrorObject(Undefined, built.message, built.statusCode, FALSE),
                           env.nodeEnv, t)
    ELSE Reply(429, built)

(***************************************************************************)
(* routes/chat.ts: the schema of POST /chat and the handler's own checks   *)
(***************************************************************************)
HasMessages(body) == "messages" \in DOMAIN body

\* the route's JSON schema: messages required, each item with a role of the
\* enum and a content string
SchemaValid(body) ==
    /\ HasMessages(body)
    /\ \A i \in 1..Len(body.messages) :
          /\ body.messages[i].role \in {"user", "assistant", "system"}
          /\ body.messages[i].content # Undefined

\* !body.messages || body.messages.length === 0
MessagesEmpty(body) == ~HasMessages(body) \/ Len(body.messages) = 0

\* mutant: only msg.role is checked
SomeMessageMalformedRoleOnly(body) ==
    \E i \in 1..Len(body.messages) : ~Truthy(body.messages[i].role)

\* some msg with !msg.role || !msg.content
SomeMessageMalformed(body) ==
    \E i \in 1..Len(body.messages) :
        ~Truthy(body.messages[i].role) \/ ~Truthy(body.messages[i].content)

BadRequestBody(message, t) ==
    [error |-> "Bad Request", message |-> message, statusCode |-> 400, timestamp |-> t]

\* error instanceof Error ? error.message : 'Unknown error'
CaughtMessage(error) == IF error.isError THEN error.message ELSE "Unknown error"

\* mutant: the catch sends the underlying message whatever NODE_ENV is
ChatFailureBodyLeaky(message, nodeEnv, t) ==
    [error |-> "Internal Server Error", message |-> message,
     statusCode |-> 500, timestamp |-> t]

\* the body of the 500 the route's catch sends
ChatFailureBody(message, nodeEnv, t) ==
    [error |-> "Internal Server Error",
     message |-> IF nodeEnv = "production" THEN "Failed to process chat request"
                 ELSE message,
     statusCode |-> 500, timestamp |-> t]

NotImplementedBody(t) ==
    [error |-> "Not Implemented", message |-> "Streaming chat is not yet implemented",
     statusCode |-> 501, timestamp |-> t]

(***************************************************************************)
(* The request lifecycle (server.ts: createServer registers the hooks)     *)
(***************************************************************************)
TimerUnset == [state |-> "unset", deadline |-> 0]

Goto(r, stage) == pc' = [pc EXCEPT ![r] = stage]

\* onRequest hook: timeoutHandler; a request arrives and its timer is armed
timeoutHandler(r, req) ==
    /\ pc[r] = "idle"
    /\ request' = [request EXCEPT ![r] = req]
    /\ timer' = [timer EXCEPT ![r] = [state |-> "armed",
                                      deadline |-> now + RequestTimeoutMs]]
    /\ Goto(r, "rateLimit")
    /\ UNCHANGED <<now, env, boot, store, closed, auth, verifyCalls, responses, dropped, prompt,
                   fullResponse, toolCalls, events, queryCalls, raised, rateVars>>

\* mutant: the callback writes the 408 to the raw response, whatever was sent
timeoutFireRaw(r) ==
    /\ timer[r].state = "armed"
    /\ now >= timer[r].deadline
    /\ timer' = [timer EXCEPT ![r].state = "fired"]
    /\ responses' = [responses EXCEPT ![r] = Append(@, Reply(408, TimeoutReplyBody(now)))]
    /\ UNCHANGED <<now, env, boot, store, pc, request, closed, auth, verifyCalls, dropped, prompt,
                   fullResponse, toolCalls, events, queryCalls, raised, rateVars>>

\* the callback of the setTimeout
timeoutFire(r) ==
    /\ timer[r].state = "armed"
    /\ now >= timer[r].deadline
    /\ timer' = [timer EXCEPT ![r].state = "fired"]
    /\ ReplySend(r, 408, TimeoutReplyBody(now))
    /\ UNCHANGED <<now, env, boot, store, pc, request, closed, auth, verifyCalls, prompt,
                   fullResponse, toolCalls, events, queryCalls, raised, rateVars>>

\* mutant: the 'close' listener is not registered, the timer stays armed
clientCloseKeepsTimer(r) ==
    /\ pc[r] # "idle"
    /\ ~closed[r]
    /\ closed' = [closed EXCEPT ![r] = TRUE]
    /\ UNCHANGED <<now, env, boot, store, pc, request, timer, auth, verifyCalls, responses,
                   dropped, prompt, fullResponse, toolCalls, events, queryCalls, raised,
                   rateVars>>

\* request.raw emits 'close': clearTimeout(timeout)
clientClose(r) ==
    /\ pc[r] # "idle"
    /\ ~closed[r]
    /\ closed' = [closed EXCEPT ![r] = TRUE]
    /\ timer' = [timer EXCEPT ![r].state = IF @ = "armed" THEN "cleared" ELSE @]
    /\ UNCHANGED <<now, env, boot, store, pc, request, auth, verifyCalls, responses, dropped, prompt,
                   fullResponse, toolCalls, events, queryCalls, raised, rateVars>>

\* onRequest hook of the rate limiter (registered with rateLimitOptions); like
\* every lifecycle step it is skipped once the reply was sent
rateLimitHook(r) ==
    /\ pc[r] = "rateLimit"
    /\ IF Sent(r)
       THEN /\ Goto(r, "done")
            /\ UNCHANGED <<store, responses, dropped>>
       ELSE LET run == RateLimitRun(isRateLimitedKeyGenerator(request[r], auth[r]), now)
                rep == LimitedReply(run.context, now)
            IN  /\ store' = run.store
                /\ IF run.limited
                   THEN /\ ReplySend(r, rep.statusCode, rep.body)
                        /\ Goto(r, "done")
                   ELSE /\ Goto(r, IF request[r].route = "/chat"
                                   THEN "validation" ELSE "preHandler")
                        /\ UNCHANGED <<responses, dropped>>
    /\ UNCHANGED <<now, env, boot, request, timer, closed, auth, verifyCalls, prompt,
                   fullResponse, toolCalls, events, queryCalls, raised, rateVars>>

\* validation of the body against the route's schema; a failure goes to errorHandler
validateBody(r) ==
    /\ pc[r] = "validation"
    /\ IF Sent(r)
       THEN /\ Goto(r, "done")
            /\ UNCHANGED <<responses, dropped>>
       ELSE IF ~SchemaValid(request[r].body)
            THEN LET rep == errorHandlerReply(
                               ErrorObject("Error", "body does not match the schema",
                                           400, TRUE), env.nodeEnv, now)
                 IN  /\ ReplySend(r, rep.statusCode, rep.body)
                     /\ Goto(r, "done")
            ELSE /\ Goto(r, "preHandler")
                 /\ UNCHANGED <<responses, dropped>>
    /\ UNCHANGED <<now, env, boot, store, request, timer, closed, auth, verifyCalls, prompt,
                   fullResponse, toolCalls, events, queryCalls, raised, rateVars>>

\* preHandler hook of the chat routes: authMiddleware
authMiddleware(r) ==
    /\ pc[r] = "preHandler"
    /\ IF Sent(r)
       THEN /\ Goto(r, "done")
            /\ UNCHANGED <<auth, verifyCalls, responses, dropped>>
       ELSE LET out == authOutcome(request[r].authorization) IN
            /\ verifyCalls' = [verifyCalls EXCEPT ![r] = @ \o out.verified]
            /\ IF out.ok
               THEN /\ auth' = [auth EXCEPT ![r] = out.auth]
                    /\ Goto(r, "handler")
                    /\ UNCHANGED <<responses, dropped>>
               ELSE /\ ReplySend(r, 401, UnauthorizedBody(out.message, now))
                    /\ Goto(r, "done")
                    /\ UNCHANGED auth
    /\ UNCHANGED <<now, env, boot, store, request, timer, closed, prompt,
                   fullResponse, toolCalls, events, queryCalls, raised, rateVars>>

\* the handler of POST /chat up to its await: the checks of the body, then
\* agentService.chat builds the prompt and calls query()
chatHandler(r) ==
    /\ pc[r] = "handler"
    /\ request[r].route = "/chat"
    /\ IF Sent(r)
       THEN /\ Goto(r, "done")
            /\ UNCHANGED <<responses, dropped, prompt, queryCalls>>
       ELSE IF MessagesEmpty(request[r].body)
       THEN /\ ReplySend(r, 400, BadRequestBody(
                    "messages array is required and must not be empty", now))
            /\ Goto(r, "done")
            /\ UNCHANGED <<prompt, queryCalls>>
       ELSE IF SomeMessageMalformed(request[r].body)
       THEN /\ ReplySend(r, 400, BadRequestBody(
                    "Each message must have role and content", now))
            /\ Goto(r, "done")
            /\ UNCHANGED <<prompt, queryCalls>>
       ELSE /\ prompt' = [prompt EXCEPT ![r] = buildPrompt(request[r].body.messages)]
            /\ queryCalls' = [queryCalls EXCEPT ![r] = @ + 1]
            /\ Goto(r, "streaming")
            /\ UNCHANGED <<responses, dropped>>
    /\ UNCHANGED <<now, env, boot, store, request, timer, closed, auth, verifyCalls,
                   fullResponse, toolCalls, events, raised, rateVars>>

\* mutant: the handler of POST /chat/stream hands the request to the runtime
streamHandlerQuery(r) ==
    /\ pc[r] = "handler"
    /\ request[r].route = "/chat/stream"
    /\ queryCalls' = [queryCalls EXCEPT ![r] = @ + 1]
    /\ Goto(r, "streaming")
    /\ UNCHANGED <<now, env, boot, store, request, timer, closed, auth, verifyCalls, prompt,
                   responses, dropped, fullResponse, toolCalls, events, raised, rateVars>>

\* the handler of POST /chat/stream
streamHandler(r) ==
    /\ pc[r] = "handler"
    /\ request[r].route = "/chat/stream"
    /\ IF Sent(r)
       THEN UNCHANGED <<responses, dropped>>
       ELSE ReplySend(r, 501, NotImplementedBody(now))
    /\ Goto(r, "done")
    /\ UNCHANGED <<now, env, boot, store, request, timer, closed, auth, verifyCalls, prompt,
                   fullResponse, toolCalls, events, queryCalls, raised, rateVars>>

\* mutant: toolCalls is a field of the shared instance, not a local of chat()
chatStepShared(r, e) ==
    /\ pc[r] = "streaming"
    /\ fullResponse' = [fullResponse EXCEPT ![r] = AppendContent(@, e)]
    /\ toolCalls' = [q \in AllReqs |-> TrackToolCalls(toolCalls[q], e)]
    /\ events' = [events EXCEPT ![r] = Append(@, e)]
    /\ UNCHANGED <<now, env, boot, store, pc, request, timer, closed, auth, verifyCalls,
                   responses, dropped, prompt, queryCalls, raised, rateVars>>

\* mutant: the loop body sends the ChatResponse as soon as text has arrived, and the
\* loop goes on
chatStepRespondsEarly(r, e) ==
    /\ pc[r] = "streaming"
    /\ fullResponse' = [fullResponse EXCEPT ![r] = AppendContent(@, e)]
    /\ toolCalls' = [toolCalls EXCEPT ![r] = TrackToolCalls(@, e)]
    /\ events' = [events EXCEPT ![r] = Append(@, e)]
    /\ IF e.type = "assistant"
       THEN ReplySend(r, 200, ChatResponseOf(r, "k3x9q2m1z"))
       ELSE UNCHANGED <<responses, dropped>>
    /\ UNCHANGED <<now, env, boot, store, pc, request, timer, closed, auth, verifyCalls,
                   prompt, queryCalls, raised, rateVars>>

\* one iteration of chat()'s for await loop, on the event the runtime yields
chatStep(r, e) ==
    /\ pc[r] = "streaming"
    /\ fullResponse' = [fullResponse EXCEPT ![r] = AppendContent(@, e)]
    /\ toolCalls' = [toolCalls EXCEPT ![r] = TrackToolCalls(@, e)]
    /\ events' = [events EXCEPT ![r] = Append(@, e)]
    /\ UNCHANGED <<now, env, boot, store, pc, request, timer, closed, auth, verifyCalls, responses,
                   dropped, prompt, queryCalls, raised, rateVars>>

\* the stream ends: chat() returns the ChatResponse and the handler sends it
chatReturn(r, rnd) ==
    /\ pc[r] = "streaming"
    /\ ReplySend(r, 200, ChatResponseOf(r, rnd))
    /\ Goto(r, "done")
    /\ UNCHANGED <<now, env, boot, store, request, timer, closed, auth, verifyCalls, prompt,
                   fullResponse, toolCalls, events, queryCalls, raised, rateVars>>

\* mutant: chat()'s catch returns what was aggregated instead of rethrowing
chatThrowPartial(r, error) ==
    /\ pc[r] = "streaming"
    /\ ReplySend(r, 200, ChatResponseOf(r, "k3x9q2m1z"))
    /\ Goto(r, "failed")
    /\ raised' = [raised EXCEPT ![r] = error]
    /\ UNCHANGED <<now, env, boot, store, request, timer, closed, auth, verifyCalls, prompt,
                   fullResponse, toolCalls, events, queryCalls, rateVars>>

\* the stream raises: chat() rethrows and the handler's catch sends the 500
chatThrow(r, error) ==
    /\ pc[r] = "streaming"
    /\ ReplySend(r, 500, ChatFailureBody(CaughtMessage(error), env.nodeEnv, now))
    /\ Goto(r, "failed")
    /\ raised' = [raised EXCEPT ![r] = error]
    /\ UNCHANGED <<now, env, boot, store, request, timer, closed, auth, verifyCalls, prompt,
                   fullResponse, toolCalls, events, queryCalls, rateVars>>

(***************************************************************************)
(* Time                                                                    *)
(***************************************************************************)
TickMs == RequestTimeoutMs

\* the timestamps of ts that lie in the window of length w ending at t
RECURSIVE Within(_, _, _)
Within(ts, t, w) ==
    IF ts = <<>> THEN <<>>
    ELSE IF Head(ts) > t - w THEN ts
         ELSE Within(Tail(ts), t, w)

\* time passes
Tick ==
    /\ now < MaxTicks * TickMs
    /\ now' = now + TickMs
    /\ admitted' = [k \in DOMAIN admitted |->
                       Within(admitted[k], now + TickMs, env.rateLimitWindowMs)]
    /\ UNCHANGED <<env, boot, store, reqVars, chatSeen, lastLimit>>

(***************************************************************************)
(* The rate-limit hook under load: a request of route rt arrives from ip   *)
(***************************************************************************)
\* how many admitted requests of key k lie in k's current counting window
AdmittedInWindow(k) ==
    IF k \in DOMAIN store
    THEN Cardinality({ i \in 1..Len(admitted[k]) :
                          admitted[k][i] >= store[k].iterationStartMs })
    ELSE 0

NoLimit == [key |-> Undefined, route |-> Undefined, counted |-> FALSE,
            limited |-> FALSE, reply |-> Reply(0, [error |-> Undefined]),
            chatBefore |-> 0, admittedBefore |-> 0, msToReset |-> 0]

rateLimitArrival(ip, rt) ==
    LET key == isRateLimitedKeyGenerator([ip |-> ip], NoAuth)
        run == RateLimitRun(key, now)
        fresh == run.counted /\ run.store[key].current = 1
        chatBefore == IF fresh THEN 0 ELSE chatSeen[key]
    IN  /\ run.counted => run.store[key].current <= MaxArrivals
        /\ store' = run.store
        /\ admitted' = IF ~run.limited
                       THEN [admitted EXCEPT ![key] = Append(@, now)]
                       ELSE admitted
        /\ chatSeen' = IF run.counted
                       THEN [chatSeen EXCEPT ![key] =
                                chatBefore + (IF rt = "/chat" THEN 1 ELSE 0)]
                       ELSE chatSeen
        /\ lastLimit' = [key |-> key, route |-> rt, counted |-> run.counted,
                         limited |-> run.limited,
                         reply |-> IF run.limited THEN LimitedReply(run.context, now)
                                   ELSE Reply(0, [error |-> Undefined]),
                         chatBefore |-> chatBefore,
                         admittedBefore |-> IF fresh THEN 0 ELSE AdmittedInWindow(key),
                         msToReset |-> IF run.counted
                                       THEN run.store[key].iterationStartMs
                                            + rateLimitOptions.timeWindow - now
                                       ELSE 0]
        /\ UNCHANGED <<now, env, boot, reqVars>>

(***************************************************************************)
(* Initial states                                                          *)
(***************************************************************************)
EmptyStore == [k \in {} |-> 0]

\* the process after startServer: both secrets were present and the server listens
Started ==
    [phase |-> "listening", anthropicApiKey |-> "sk-ant-1", jwtSecret |-> "s3cret",
     error |-> Undefined]

InitRequests ==
    /\ pc = [r \in AllReqs |-> "idle"]
    /\ request = [r \in AllReqs |-> NoRequest]
    /\ timer = [r \in AllReqs |-> TimerUnset]
    /\ closed = [r \in AllReqs |-> FALSE]
    /\ auth = [r \in AllReqs |-> NoAuth]
    /\ verifyCalls = [r \in AllReqs |-> <<>>]
    /\ responses = [r \in AllReqs |-> <<>>]
    /\ dropped = [r \in AllReqs |-> 0]
    /\ prompt = [r \in AllReqs |-> ""]
    /\ fullResponse = [r \in AllReqs |-> ""]
    /\ toolCalls = [r \in AllReqs |-> <<>>]
    /\ events = [r \in AllReqs |-> <<>>]
    /\ queryCalls = [r \in AllReqs |-> 0]
    /\ raised = [r \in AllReqs |-> NoThrow]

InitRateGhosts ==
    /\ admitted = [k \in Ips |-> <<>>]
    /\ chatSeen = [k \in Ips |-> 0]
    /\ lastLimit = NoLimit

\* a key that has used up its budget in the window that started at time 0
ExhaustedStore(ip, max, w) ==
    (ip :> [current |-> max, ttl |-> w, iterationStartMs |-> 0]) @@ EmptyStore

\* the server has started (the configuration loaded) and no request of the model has
\* arrived; the limiter has counted the earlier requests of BusyIp
Init ==
    /\ now = 0
    /\ boot = Started
    /\ env \in { EnvConfig(DefaultMaxRequests, DefaultWindowMs, ne, lt) :
                   ne \in {"production", "development"}, lt \in BOOLEAN }
    /\ store = ExhaustedStore(BusyIp, DefaultMaxRequests, DefaultWindowMs)
    /\ InitRequests
    /\ InitRateGhosts

\* the limiter alone, with the default budget and with a small one
InitRate ==
    /\ now = 0
    /\ boot = Started
    /\ env \in { EnvConfig(SmallMaxRequests, DefaultWindowMs, "development", lt) :
                   lt \in BOOLEAN }
               \cup { EnvConfig(DefaultMaxRequests, DefaultWindowMs, "development", FALSE) }
    /\ store = EmptyStore
    /\ InitRequests
    /\ InitRateGhosts

AggRequest(sid) ==
    [ip |-> "10.0.0.1", route |-> "/chat", authorization |-> "Bearer tokGood",
     body |-> [messages |-> <<Msg("user", "hi")>>, sessionId |-> sid]]

\* request 1 is inside agentService.chat, at the head of the for await loop
InitAgg ==
    /\ now = 0
    /\ boot = Started
    /\ env = EnvConfig(DefaultMaxRequests, DefaultWindowMs, "development", FALSE)
    /\ store = ("10.0.0.1" :> [current |-> 1, ttl |-> DefaultWindowMs,
                                iterationStartMs |-> 0]) @@ EmptyStore
    /\ pc = [r \in AllReqs |-> IF r \in Reqs THEN "streaming" ELSE "idle"]
    /\ \E sid \in SessionIds :
          request = [r \in AllReqs |-> IF r \in Reqs THEN AggRequest(sid) ELSE NoRequest]
    /\ timer = [r \in AllReqs |-> IF r \in Reqs
                                  THEN [state |-> "armed", deadline |-> RequestTimeoutMs]
                                  ELSE TimerUnset]
    /\ closed = [r \in AllReqs |-> FALSE]
    /\ auth = [r \in AllReqs |-> IF r \in Reqs THEN AuthContext("u1") ELSE NoAuth]
    /\ verifyCalls = [r \in AllReqs |-> IF r \in Reqs THEN <<"tokGood">> ELSE <<>>]
    /\ responses = [r \in AllReqs |-> <<>>]
    /\ dropped = [r \in AllReqs |-> 0]
    /\ prompt = [r \in AllReqs |-> IF r \in Reqs
                                   THEN buildPrompt(request[r].body.messages) ELSE ""]
    /\ fullResponse = [r \in AllReqs |-> ""]
    /\ toolCalls = [r \in AllReqs |-> <<>>]
    /\ events = [r \in AllReqs |-> <<>>]
    /\ queryCalls = [r \in AllReqs |-> IF r \in Reqs THEN 1 ELSE 0]
    /\ raised = [r \in AllReqs |-> NoThrow]
    /\ InitRateGhosts

(***************************************************************************)
(* Specifications                                                          *)
(***************************************************************************)
Next ==
    \/ Tick
    \/ \E r \in Reqs :
          \/ \E req \in Requests : timeoutHandler(r, req)
          \/ timeoutFire(r)
          \/ clientClose(r)
          \/ rateLimitHook(r)
          \/ validateBody(r)
          \/ authMiddleware(r)
          \/ chatHandler(r)
          \/ streamHandler(r)
          \/ \E e \in HttpEvents : Len(events[r]) < MaxHttpEvents /\ chatStep(r, e)
          \/ \E rnd \in RandomSuffixes : chatReturn(r, rnd)
          \/ \E m \in RuntimeErrors : chatThrow(r, m)

Spec == Init /\ [][Next]_vars

NextAgg ==
    \E r \in Reqs :
        \/ \E e \in AllEvents : Len(events[r]) < MaxEvents /\ chatStep(r, e)
        \/ \E rnd \in RandomSuffixes : chatReturn(r, rnd)
        \/ \E m \in RuntimeErrors : chatThrow(r, m)

SpecAgg == InitAgg /\ [][NextAgg]_vars

\* arrivals from the addresses the limiter counts
NextRate ==
    \/ Tick
    \/ \E ip \in Ips \ {LoopbackIp}, rt \in {"/chat", "/health"} :
          rateLimitArrival(ip, rt)

SpecRate == InitRate /\ [][NextRate]_vars

\* arrivals from every address, the allow-listed one included, under a small budget
InitAllow ==
    /\ InitRate
    /\ env.rateLimitMaxRequests = SmallMaxRequests

NextAllow ==
    \/ Tick
    \/ \E ip \in Ips, rt \in {"/chat", "/health"} :
          /\ ip = LoopbackIp => Len(admitted[ip]) < MaxLoopback
          /\ rateLimitArrival(ip, rt)

SpecAllow == InitAllow /\ [][NextAllow]_vars

(***************************************************************************)
(* Claims about the aggregation of tool events (SpecAgg)                    *)
(***************************************************************************)
\* a record no tool-end has resolved yet
IsOpen(tc) == tc.output = Undefined /\ tc.error = Undefined

\* the earliest-started open record named name: its index, 0 for none
EarliestOpen(calls, name) ==
    IF \E i \in 1..Len(calls) : calls[i].name = name /\ IsOpen(calls[i])
    THEN CHOOSE i \in 1..Len(calls) :
            /\ calls[i].name = name /\ IsOpen(calls[i])
            /\ \A j \in 1..(i - 1) : ~(calls[j].name = name /\ IsOpen(calls[j]))
    ELSE 0

\* first-in-first-out pairing: a tool-end resolves the earliest open record of its
\* name, with its error or else its output, and no record when none is open
FifoResolve(calls, e) ==
    LET i == EarliestOpen(calls, e.toolName) IN
    IF i = 0 THEN calls
    ELSE IF Truthy(e.error) THEN [calls EXCEPT ![i].error = e.error]
         ELSE [calls EXCEPT ![i].output = e.output]

RECURSIVE FifoToolCalls(_)
FifoToolCalls(evs) ==
    IF evs = <<>> THEN <<>>
    ELSE LET before == FifoToolCalls(SubSeq(evs, 1, Len(evs) - 1))
             e == Last(evs)
         IN  IF e.type = "tool_start" THEN Append(before, NewToolCall(e))
             ELSE IF e.type = "tool_end" THEN FifoResolve(before, e)
             ELSE before

TwoStartsTwoEnds ==
    <<ToolStart("A", "in1"), ToolStart("A", "in1"),
      ToolEnd("A", "o1", Undefined), ToolEnd("A", Undefined, "e2")>>

\* C1: every tool-end event resolves exactly one record, the earliest-started record
\* of its name that is still open, so that after any events the tool-call list is the
\* first-in-first-out pairing of the starts and ends; after start(A), start(A),
\* end(A, output o1), end(A, error e2) the first record has output o1 and no error
\* and the second has error e2 and no output.
C1_ToolEndResolvesEarliestOpen ==
    \A r \in Reqs :
        /\ toolCalls[r] = FifoToolCalls(events[r])
        /\ events[r] = TwoStartsTwoEnds =>
              toolCalls[r] = << [name |-> "A", input |-> "in1", output |-> "o1",
                                 error |-> Undefined],
                                [name |-> "A", input |-> "in1", output |-> Undefined,
                                 error |-> "e2"] >>

\* C2: in every reachable state no tool-call record has both its output and its
\* error set.
C2_OutputAndErrorNeverBoth ==
    \A r \in Reqs : \A i \in 1..Len(toolCalls[r]) :
        ~(toolCalls[r][i].output # Undefined /\ toolCalls[r][i].error # Undefined)

\* the step consumes a tool-end event of request r
ConsumesToolEnd(r) ==
    /\ Len(events'[r]) = Len(events[r]) + 1
    /\ Last(events'[r]).type = "tool_end"

\* C3: a tool-end event whose name has no open record (no record of that name, or
\* only resolved ones) is ignored: the loop goes on without raising and the
\* tool-call list is the same after the event as before it.
C3_ToolEndWithoutOpenRecordIgnored ==
    [][\A r \in Reqs :
          (ConsumesToolEnd(r) /\ EarliestOpen(toolCalls[r], Last(events'[r]).toolName) = 0)
          => (toolCalls'[r] = toolCalls[r] /\ pc'[r] = "streaming")]_vars

(***************************************************************************)
(* Claims about the request lifecycle (Spec)                               *)
(***************************************************************************)
\* the lifecycle of request r is over
Finished(r) == pc[r] \in {"done", "failed"}

\* the status of the reply written for r, 0 when none was
StatusOf(r) == IF responses[r] = <<>> THEN 0 ELSE responses[r][1].statusCode

PayloadInvalid(body) ==
    \/ ~HasMessages(body)
    \/ Len(body.messages) = 0
    \/ \E i \in 1..Len(body.messages) :
          \/ body.messages[i].role \in {Undefined, ""}
          \/ body.messages[i].role \notin {"user", "assistant", "system"}
          \/ body.messages[i].content \in {Undefined, ""}

\* the credential of r does not verify
CredentialBad(r) == ~authOutcome(request[r].authorization).ok

\* C5 as claimed: a POST /chat payload with a defect is rejected with 400 and the
\* runtime is never invoked for it.
C5_InvalidPayloadAnswers400 ==
    \A r \in Reqs :
        (request[r].route = "/chat" /\ PayloadInvalid(request[r].body)) =>
            /\ queryCalls[r] = 0
            /\ Finished(r) => (Len(responses[r]) = 1 /\ StatusOf(r) = 400)

\* C5 as amended: for a POST /chat payload with a defect the runtime is never
\* invoked, and the request is answered 400 unless another stage answers first:
\* the rate limiter with 429, the timeout timer with 408, or, for a defect the
\* route schema lets through (an empty list, an empty content), authMiddleware
\* with 401 when the credential does not verify.
C5_InvalidPayloadNeverReachesRuntime ==
    \A r \in Reqs :
        (request[r].route = "/chat" /\ PayloadInvalid(request[r].body)) =>
            /\ queryCalls[r] = 0
            /\ pc[r] \notin {"streaming", "failed"}
            /\ Finished(r) =>
                  /\ Len(responses[r]) = 1
                  /\ \/ StatusOf(r) = 429
                     \/ StatusOf(r) = 408 /\ timer[r].state = "fired"
                     \/ StatusOf(r) = 401 /\ SchemaValid(request[r].body)
                                          /\ CredentialBad(r)
                     \/ StatusOf(r) = 400 /\ (SchemaValid(request[r].body)
                                                => ~CredentialBad(r))

\* an authenticated request whose second message has an empty content got the
\* handler's 400
C5_Witness ==
    \E r \in Reqs :
        /\ pc[r] = "done" /\ request[r].route = "/chat"
        /\ HasMessages(request[r].body)
        /\ Len(request[r].body.messages) = 2
        /\ request[r].body.messages[1] \in GoodMsgs
        /\ request[r].body.messages[2].content = ""
        /\ ~CredentialBad(r)
        /\ StatusOf(r) = 400
        /\ responses[r][1].body.message = "Each message must have role and content"
        /\ queryCalls[r] = 0

\* C6: every request to POST /chat whose credential is missing, malformed, invalid
\* or expired is answered 401, and neither the chat handler nor the runtime is
\* invoked for it.
C6_BadCredentialAnswers401 ==
    \A r \in Reqs :
        (request[r].route = "/chat" /\ pc[r] # "idle" /\ CredentialBad(r)) =>
            /\ pc[r] \notin {"handler", "streaming", "failed"}
            /\ queryCalls[r] = 0
            /\ Finished(r) => (Len(responses[r]) = 1 /\ StatusOf(r) = 401)

\* C7: when the timer of a request fires and no response has been sent, the 408 is
\* sent; and once a response has been sent, every later write for the request is
\* suppressed, so a request receives at most one response.
C7_TimeoutAnswers408Once ==
    [][\A r \in Reqs :
          /\ (timer[r].state = "armed" /\ timer'[r].state = "fired" /\ ~Sent(r))
                => responses'[r] = <<Reply(408, TimeoutReplyBody(now))>>
          /\ Sent(r) => responses'[r] = responses[r]
          /\ Len(responses'[r]) <= 1]_vars

\* the timer answered 408 while the runtime was running, and the handler's write,
\* when the stream ended afterwards, was dropped
C7_Witness ==
    \E r \in Reqs :
        /\ pc[r] = "done" /\ queryCalls[r] = 1
        /\ StatusOf(r) = 408
        /\ dropped[r] = 1

(***************************************************************************)
(* Claims about the rate limiter (SpecRate)                                *)
(***************************************************************************)
\* the keys the limiter counts
CountedKeys == Ips \ rateLimitOptions.allowList

\* the last arrival was counted and its key had already used up budget b
BeyondBudget(b) == lastLimit.counted /\ lastLimit.admittedBefore >= b

DefaultLimits ==
    /\ env.rateLimitMaxRequests = DefaultMaxRequests
    /\ env.rateLimitWindowMs = DefaultWindowMs

\* C9: under the default configuration the chat route enforces a budget of its own
\* of 20 requests per 60 s window, stricter than the global one, and the health
\* routes a more lenient budget of their own: a chat request of a key that made 20
\* chat requests in the window is rejected, and a health request is rejected only
\* when the key made 100 health requests in the window.
C9_ChatRouteOwnBudget ==
    (DefaultLimits /\ lastLimit.counted) =>
        /\ (lastLimit.route = "/chat" /\ lastLimit.chatBefore >= rateLimitConfigs.chat.max)
              => lastLimit.limited
        /\ (lastLimit.route = "/health" /\ lastLimit.limited)
              => store[lastLimit.key].current - 1 - lastLimit.chatBefore
                    >= rateLimitConfigs.health.max

\* C10: every 429 response carries a retryAfter field, the number of milliseconds
\* that remain until the window of the key resets.
C10_RetryAfterIsMsToReset ==
    lastLimit.limited =>
        /\ lastLimit.reply.statusCode = 429
        /\ "retryAfter" \in DOMAIN lastLimit.reply.body
        /\ IsNum(lastLimit.reply.body.retryAfter)
        /\ lastLimit.reply.body.retryAfter = JsNum(lastLimit.msToReset)

\* C11: a request from the allow-listed loopback address 127.0.0.1 is never
\* rejected with 429, on any route and however many requests the address has sent
\* in the window; the limiter keeps no counter for it.
C11_LoopbackNeverLimited ==
    /\ LoopbackIp \notin DOMAIN store
    /\ lastLimit.key = LoopbackIp =>
          /\ ~lastLimit.limited
          /\ ~lastLimit.counted
          /\ lastLimit.reply.statusCode # 429

\* the loopback address was admitted more often within a window than the budget
\* allows while another address, over the same budget, was being rejected
C11_Witness ==
    /\ lastLimit.key = LoopbackIp
    /\ ~lastLimit.limited
    /\ Len(admitted[LoopbackIp]) > env.rateLimitMaxRequests
    /\ \E k \in CountedKeys :
          k \in DOMAIN store /\ store[k].current > env.rateLimitMaxRequests

(***************************************************************************)
(* Claims about the key of the rate-limit counter (Spec)                   *)
(***************************************************************************)
\* the key the counter of r is claimed to have: the identity of a valid credential,
\* else the network address
IdentityKey(r) ==
    LET out == authOutcome(request[r].authorization)
    IN  IF out.ok THEN out.auth.openid ELSE request[r].ip

\* C12: the rate-limit counter of a request is keyed by the authenticated identity
\* (openid) when the request carries a valid credential and by the network address
\* otherwise: the limiter's run for a request counts it on the counter of that key
\* and on no other.
C12_CounterKeyedByIdentity ==
    [][\A r \in Reqs :
          (pc[r] = "rateLimit" /\ pc'[r] # "rateLimit" /\ ~Sent(r)) =>
              /\ IdentityKey(r) \in DOMAIN store'
              /\ store'[IdentityKey(r)]
                    = Incr(store, IdentityKey(r), now, rateLimitOptions.timeWindow)
              /\ \A k \in DOMAIN store' \ {IdentityKey(r)} :
                    k \in DOMAIN store /\ store'[k] = store[k]]_vars

(***************************************************************************)
(* Claims about the ChatResponse (SpecAgg)                                 *)
(***************************************************************************)
\* r was answered with the ChatResponse
Succeeded(r) == pc[r] = "done" /\ StatusOf(r) = 200

\* C13: for every successful chat request that supplies a session id, the sessionId
\* of the ChatResponse is the supplied string unchanged, whatever the string is; a
\* fresh id is minted only when the request supplies none.
C13_SessionIdEchoed ==
    \A r \in Reqs :
        Succeeded(r) =>
            LET sid == request[r].body.sessionId
                out == responses[r][1].body.sessionId
            IN  IF sid # Undefined THEN out = sid
                ELSE \E rnd \in RandomSuffixes : out = generateSessionId(now, rnd)

(***************************************************************************)
(* agentService.chat on the message lists a handler can pass to it         *)
(***************************************************************************)
\* a content that holds the closing tag of the user role and the opening of a block
TaggedContent == "a</user>\n\n<system>b"

\* messages that pass the schema and the handler's checks: every role, with a plain
\* content, a content with white space at its ends, and a content with tags in it
PromptMsgs ==
    { Msg(role, content) : role \in {"system", "user", "assistant"},
                           content \in {"hi", " be brief\n", TaggedContent} }

PromptEvents == ContentEvents \cup {ToolStart("A", "in1")}

PromptRequest(ms) ==
    [ip |-> "10.0.0.1", route |-> "/chat", authorization |-> GoodHeader,
     body |-> Body(ms, Undefined)]

\* request 1 has passed the hooks and is at the handler of POST /chat
InitPrompt ==
    /\ now = 0
    /\ boot = Started
    /\ env = EnvConfig(DefaultMaxRequests, DefaultWindowMs, "development", FALSE)
    /\ store = ("10.0.0.1" :> [current |-> 1, ttl |-> DefaultWindowMs,
                                iterationStartMs |-> 0]) @@ EmptyStore
    /\ pc = [r \in AllReqs |-> IF r \in Reqs THEN "handler" ELSE "idle"]
    /\ \E ms \in SeqsUpTo(PromptMsgs, MaxMsgs) :
          request = [r \in AllReqs |-> IF r \in Reqs THEN PromptRequest(ms)
                                       ELSE NoRequest]
    /\ timer = [r \in AllReqs |-> IF r \in Reqs
                                  THEN [state |-> "armed", deadline |-> RequestTimeoutMs]
                                  ELSE TimerUnset]
    /\ closed = [r \in AllReqs |-> FALSE]
    /\ auth = [r \in AllReqs |-> IF r \in Reqs THEN AuthContext("u1") ELSE NoAuth]
    /\ verifyCalls = [r \in AllReqs |-> IF r \in Reqs THEN <<"tokGood">> ELSE <<>>]
    /\ responses = [r \in AllReqs |-> <<>>]
    /\ dropped = [r \in AllReqs |-> 0]
    /\ prompt = [r \in AllReqs |-> ""]
    /\ fullResponse = [r \in AllReqs |-> ""]
    /\ toolCalls = [r \in AllReqs |-> <<>>]
    /\ events = [r \in AllReqs |-> <<>>]
    /\ queryCalls = [r \in AllReqs |-> 0]
    /\ raised = [r \in AllReqs |-> NoThrow]
    /\ InitRateGhosts

NextPrompt ==
    \E r \in Reqs :
        \/ chatHandler(r)
        \/ \E e \in PromptEvents : Len(events[r]) < MaxHttpEvents /\ chatStep(r, e)
        \/ \E rnd \in RandomSuffixes : chatReturn(r, rnd)

SpecPrompt == InitPrompt /\ [][NextPrompt]_vars

(***************************************************************************)
(* Claims about the prompt and the usage estimate (SpecPrompt)             *)
(***************************************************************************)
\* the first position of pattern p in s, 0 when s does not contain it
IndexOf(s, p) ==
    LET at == { i \in 1..(Len(s) - Len(p) + 1) : SubSeq(s, i, i + Len(p) - 1) = p }
    IN  IF at = {} THEN 0 ELSE CHOOSE i \in at : \A j \in at : i <= j

StartsWith(s, p) == Len(s) >= Len(p) /\ SubSeq(s, 1, Len(p)) = p

Drop(s, n) == SubSeq(s, n + 1, Len(s))

NotABlock == [role |-> "?", content |-> "?"]

\* the role-tagged blocks a reader finds in a prompt: <role>content</role>, blocks
\* separated by a blank line; NotABlock where the text is no such block
RECURSIVE BlocksOf(_)
BlocksOf(s) ==
    IF s = "" THEN <<>>
    ELSE LET roles == { ro \in {"system", "user", "assistant"} :
                          StartsWith(s, "<" \o ro \o ">") }
         IN  IF roles = {} THEN <<NotABlock>>
             ELSE LET ro == CHOOSE x \in roles : TRUE
                      inner == Drop(s, Len(ro) + 2)
                      close == "</" \o ro \o ">"
                      at == IndexOf(inner, close)
                  IN  IF at = 0 THEN <<NotABlock>>
                      ELSE LET block == Msg(ro, SubSeq(inner, 1, at - 1))
                               rest == Drop(inner, at - 1 + Len(close))
                           IN  IF rest = "" THEN <<block>>
                               ELSE IF StartsWith(rest, "\n\n")
                                    THEN <<block>> \o BlocksOf(Drop(rest, 2))
                                    ELSE <<block, NotABlock>>

\* the prompt of r has been built
PromptBuilt(r) == queryCalls[r] = 1

\* C14: for every list of N messages passed to buildPrompt, the prompt contains
\* exactly N role-tagged blocks, the i-th with the role tag and the content of the
\* i-th message.
C14_PromptBlocksAreMessages ==
    \A r \in Reqs :
        PromptBuilt(r) => BlocksOf(prompt[r]) = request[r].body.messages

\* n / 4 rounded up: the least k with 4k >= n
QuarterRoundedUp(n) == CHOOSE k \in 0..n : 4 * k >= n /\ \A j \in 0..(k - 1) : 4 * j < n

\* C15: the usage estimate is a deterministic function of text length:
\* estimateTokens of the empty text is 0 and estimateTokens(text) is the length of
\* the text divided by 4 rounded up; in every ChatResponse inputTokens is that
\* function of the constructed prompt and outputTokens that of the aggregated text.
C15_UsageIsLengthOverFourRoundedUp ==
    /\ estimateTokens("") = 0
    /\ \A r \in Reqs :
          Succeeded(r) =>
              LET body == responses[r][1].body
              IN  /\ prompt[r] = buildPrompt(request[r].body.messages)
                  /\ body.content = fullResponse[r]
                  /\ body.usage.inputTokens = QuarterRoundedUp(Len(prompt[r]))
                  /\ body.usage.outputTokens = QuarterRoundedUp(Len(body.content))
                  /\ body.usage.inputTokens = estimateTokens(prompt[r])
                  /\ body.usage.outputTokens = estimateTokens(body.content)

\* a response whose text has 5 characters and whose prompt has 15: neither length
\* is a multiple of 4
C15_Witness ==
    \E r \in Reqs :
        /\ Succeeded(r)
        /\ Len(responses[r][1].body.content) = 5
        /\ responses[r][1].body.usage.outputTokens = 2
        /\ Len(prompt[r]) = 15
        /\ responses[r][1].body.usage.inputTokens = 4

(***************************************************************************)
(* Claims about the aggregated text and the toolCalls field (SpecAgg)      *)
(***************************************************************************)
\* the text of the content fragments of a sequence of events, in arrival order
RECURSIVE FragmentsText(_)
FragmentsText(evs) ==
    IF evs = <<>> THEN ""
    ELSE (IF Head(evs).type = "assistant" THEN BlocksText(Head(evs).blocks) ELSE "")
         \o FragmentsText(Tail(evs))

\* C16: for every event sequence that ends without raising, the content of the
\* ChatResponse is the concatenation of the text of all content fragments in arrival
\* order, repeated fragments kept, and tool-start and tool-end events contribute
\* nothing to it.
C16_ContentIsConcatenation ==
    \A r \in Reqs :
        Succeeded(r) => responses[r][1].body.content = FragmentsText(events[r])

\* the same fragment arrived twice, with tool events around it, and was kept twice
C16_Witness ==
    \E r \in Reqs :
        /\ Succeeded(r)
        /\ Len(events[r]) = 4
        /\ events[r][1] = AssistantEvent(<<TextBlock("ab")>>)
        /\ events[r][2].type = "tool_start"
        /\ events[r][3] = events[r][1]
        /\ events[r][4].type = "tool_end"
        /\ responses[r][1].body.content = "abab"

\* a tool-start event is among the events consumed by r
HasToolStart(r) == \E i \in 1..Len(events[r]) : events[r][i].type = "tool_start"

\* C17: the toolCalls field of a ChatResponse is omitted if and only if the event
\* sequence contained no tool-start event; when present it is non-empty.
C17_ToolCallsOmittedIffNoToolStart ==
    \A r \in Reqs :
        Succeeded(r) =>
            LET body == responses[r][1].body
            IN  /\ ("toolCalls" \in DOMAIN body) <=> HasToolStart(r)
                /\ "toolCalls" \in DOMAIN body => Len(body.toolCalls) > 0

\* a response without the field: the stream held a tool-end but no tool-start
C17_Witness ==
    \E r \in Reqs :
        /\ Succeeded(r)
        /\ Len(events[r]) >= 2
        /\ \E i \in 1..Len(events[r]) : events[r][i].type = "tool_end"
        /\ ~HasToolStart(r)
        /\ "toolCalls" \notin DOMAIN responses[r][1].body

(***************************************************************************)
(* Concurrent chat requests on the one AgentService instance               *)
(***************************************************************************)
ConcEvents == HttpEvents \cup {ToolEnd("A", Undefined, "e2")}

\* every request is inside agentService.chat, at the head of its for await loop
InitConc ==
    /\ now = 0
    /\ boot = Started
    /\ env = EnvConfig(DefaultMaxRequests, DefaultWindowMs, "development", FALSE)
    /\ store = ("10.0.0.1" :> [current |-> Cardinality(AllReqs), ttl |-> DefaultWindowMs,
                                iterationStartMs |-> 0]) @@ EmptyStore
    /\ pc = [r \in AllReqs |-> "streaming"]
    /\ request = [r \in AllReqs |-> AggRequest(Undefined)]
    /\ timer = [r \in AllReqs |-> [state |-> "armed", deadline |-> RequestTimeoutMs]]
    /\ closed = [r \in AllReqs |-> FALSE]
    /\ auth = [r \in AllReqs |-> AuthContext("u1")]
    /\ verifyCalls = [r \in AllReqs |-> <<"tokGood">>]
    /\ responses = [r \in AllReqs |-> <<>>]
    /\ dropped = [r \in AllReqs |-> 0]
    /\ prompt = [r \in AllReqs |-> buildPrompt(request[r].body.messages)]
    /\ fullResponse = [r \in AllReqs |-> ""]
    /\ toolCalls = [r \in AllReqs |-> <<>>]
    /\ events = [r \in AllReqs |-> <<>>]
    /\ queryCalls = [r \in AllReqs |-> 1]
    /\ raised = [r \in AllReqs |-> NoThrow]
    /\ InitRateGhosts

\* the scheduler resumes any of the requests at its next event
NextConc ==
    \E r \in AllReqs :
        \/ \E e \in ConcEvents : Len(events[r]) < MaxHttpEvents /\ chatStep(r, e)
        \/ \E rnd \in RandomSuffixes : chatReturn(r, rnd)
        \/ \E m \in RuntimeErrors : chatThrow(r, m)

SpecConc == InitConc /\ [][NextConc]_vars

(***************************************************************************)
(* Claims about concurrent requests (SpecConc)                             *)
(***************************************************************************)
\* the buffer and the list a request builds from its events when it runs alone
RECURSIVE RunAlone(_, _, _)
RunAlone(evs, full, calls) ==
    IF evs = <<>> THEN [content |-> full, toolCalls |-> calls]
    ELSE RunAlone(Tail(evs), AppendContent(full, Head(evs)),
                  TrackToolCalls(calls, Head(evs)))

\* C18: when several chat requests run concurrently on the shared AgentService
\* instance, their event streams interleaved at every event, the ChatResponse of
\* each (text, tool-call list, usage) is the one the request produces alone: no
\* event of a request changes the output buffer or the tool-call list of another.
C18_ConcurrentRequestsIsolated ==
    \A r \in AllReqs :
        LET alone == RunAlone(events[r], "", <<>>) IN
        /\ fullResponse[r] = alone.content
        /\ toolCalls[r] = alone.toolCalls
        /\ (pc[r] = "done" /\ StatusOf(r) = 200) =>
              LET body == responses[r][1].body IN
              /\ body.content = alone.content
              /\ IF alone.toolCalls = <<>> THEN "toolCalls" \notin DOMAIN body
                 ELSE "toolCalls" \in DOMAIN body /\ body.toolCalls = alone.toolCalls
              /\ body.usage = [inputTokens |-> estimateTokens(prompt[r]),
                               outputTokens |-> estimateTokens(alone.content)]

\* two requests have answered; both started tool A, one saw it end with an output
\* and the other nothing more than text
C18_Witness ==
    /\ \A r \in AllReqs : pc[r] = "done" /\ StatusOf(r) = 200
    /\ events[1] = <<ToolStart("A", "in1"), ToolEnd("A", "o1", Undefined)>>
    /\ events[2] = <<ToolStart("A", "in1"), AssistantEvent(<<TextBlock("ab")>>)>>
    /\ responses[1][1].body.toolCalls[1].output = "o1"
    /\ responses[2][1].body.toolCalls[1].output = Undefined
    /\ responses[2][1].body.content = "ab"

(***************************************************************************)
(* Claims about authMiddleware (Spec)                                      *)
(***************************************************************************)
\* the header is the scheme Bearer, one space, and a token without a space
TwoTokensBearer(h) ==
    /\ h # Undefined
    /\ StartsWith(h, "Bearer ")
    /\ IndexOf(Drop(h, 7), " ") = 0

\* the credential of r has the shape of a bearer token and the token is expired
CredentialExpired(r) ==
    /\ TwoTokensBearer(request[r].authorization)
    /\ JwtVerify(Drop(request[r].authorization, 7)).error = "TokenExpiredError"

\* the messages of the 401 answers to the bad credentials that are not expired
OtherBadCredentialMessages ==
    { authOutcome(h).message :
        h \in { x \in AuthHeaders :
                  /\ ~authOutcome(x).ok
                  /\ ~(TwoTokensBearer(x)
                       /\ JwtVerify(Drop(x, 7)).error = "TokenExpiredError") } }

\* C19: a request bearing an expired credential is answered 401, with a
\* message that differs from the message of the 401 answered to a request bearing an
\* otherwise invalid or malformed credential.
C19_ExpiredCredentialAnswers401 ==
    \A r \in Reqs :
        (Finished(r) /\ CredentialExpired(r)) =>
            /\ Len(responses[r]) = 1
            /\ StatusOf(r) = 401
            /\ responses[r][1].body.message \notin OtherBadCredentialMessages

\* the message of the 401 for a header that has not the shape of a bearer token
ShapeMessage(h) ==
    IF h \in {Undefined, ""} THEN "Missing Authorization header"
    ELSE "Invalid Authorization header format. Use: Bearer <token>"

\* C20: authMiddleware accepts an Authorization header only when it splits into
\* exactly two space-separated tokens of which the first is the literal Bearer, and
\* then calls verifyToken with the second; for every other shape it answers 401 with
\* the message of the format failure ("Missing Authorization header" for an absent
\* or empty header, "Invalid Authorization header format. Use: Bearer <token>" for
\* the rest) and never calls verifyToken.
C20_OnlyBearerShapeIsVerified ==
    [][\A r \in Reqs :
          (pc[r] = "preHandler" /\ pc'[r] # "preHandler" /\ ~Sent(r)) =>
              LET h == request[r].authorization IN
              IF TwoTokensBearer(h)
              THEN /\ verifyCalls'[r] = <<Drop(h, 7)>>
                   /\ auth'[r].set <=> JwtVerify(Drop(h, 7)).ok
                   /\ auth'[r].set <=> pc'[r] = "handler"
              ELSE /\ verifyCalls'[r] = <<>>
                   /\ ~auth'[r].set
                   /\ pc'[r] = "done"
                   /\ responses'[r] = <<Reply(401, UnauthorizedBody(ShapeMessage(h), now))>>]_vars

\* a header of three tokens that starts with Bearer and a valid token was answered
\* 401 for its format, verifyToken not called
C20_Witness ==
    \E r \in Reqs :
        /\ Finished(r)
        /\ request[r].authorization = "Bearer tokGood x"
        /\ verifyCalls[r] = <<>>
        /\ StatusOf(r) = 401
        /\ responses[r][1].body.message
              = "Invalid Authorization header format. Use: Bearer <token>"

(***************************************************************************)
(* Startup: config/env.ts is evaluated when server.ts imports it, then     *)
(* startServer creates the server and listens                              *)
(***************************************************************************)
\* what process.env can hold for a secret: unset, empty, blank, or a value
SecretValues(present) == {Undefined, "", " ", present}

\* what process.env can hold for the settings the limiter and the handlers read
MaxRequestsSettings == {Undefined, "2"}
WindowMsSettings == {Undefined, "1000"}
NodeEnvSettings == {Undefined, "production", "test"}

\* v || fallback
OrElse(v, fallback) == IF Truthy(v) THEN v ELSE fallback

Digits == "0123456789"

IsDigit(c) == \E d \in 1..Len(Digits) : SubSeq(Digits, d, d) = c

DigitValue(c) == (CHOOSE d \in 1..Len(Digits) : SubSeq(Digits, d, d) = c) - 1

RECURSIVE ParseDigits(_, _)
ParseDigits(s, acc) ==
    IF s = "" \/ ~IsDigit(SubSeq(s, 1, 1)) THEN acc
    ELSE ParseDigits(SubSeq(s, 2, Len(s)), 10 * acc + DigitValue(SubSeq(s, 1, 1)))

\* parseInt(s, 10) of an unsigned string: its leading digits, NaN when it has none
ParseInt(s) ==
    IF s = "" \/ ~IsDigit(SubSeq(s, 1, 1)) THEN "NaN" ELSE ParseDigits(s, 0)

\* mutant: only ANTHROPIC_API_KEY is required
requiredErrorKeyOnly(anthropicApiKey, jwtSecret) ==
    IF ~Truthy(anthropicApiKey) THEN "ANTHROPIC_API_KEY is required"
    ELSE Undefined

\* the message of the Error loadEnvConfig throws, Undefined when it throws none
requiredError(anthropicApiKey, jwtSecret) ==
    IF ~Truthy(anthropicApiKey) THEN "ANTHROPIC_API_KEY is required"
    ELSE IF ~Truthy(jwtSecret) THEN "JWT_SECRET is required"
    ELSE Undefined

\* export const env = loadEnvConfig(): a throw ends the module's evaluation, and with it
\* the process, before server.ts runs a line of its own
loadEnvConfig(maxRequests, windowMs, nodeEnv, limiterThrows) ==
    /\ boot.phase = "start"
    /\ LET error == requiredError(boot.anthropicApiKey, boot.jwtSecret) IN
       IF error # Undefined
       THEN /\ boot' = [boot EXCEPT !.phase = "crashed", !.error = error]
            /\ UNCHANGED env
       ELSE /\ boot' = [boot EXCEPT !.phase = "loaded"]
            /\ env' = EnvConfig(ParseInt(OrElse(maxRequests, "100")),
                                ParseInt(OrElse(windowMs, "60000")),
                                OrElse(nodeEnv, "development"), limiterThrows)
    /\ UNCHANGED <<now, store, reqVars, rateVars>>

\* startServer: const server = await createServer()
createServer ==
    /\ boot.phase = "loaded"
    /\ boot' = [boot EXCEPT !.phase = "created"]
    /\ UNCHANGED <<now, env, store, reqVars, rateVars>>

\* startServer: await server.listen(...), and process.exit(1) when it rejects
listen(bound) ==
    /\ boot.phase = "created"
    /\ boot' = [boot EXCEPT !.phase = IF bound THEN "listening" ELSE "exited"]
    /\ UNCHANGED <<now, env, store, reqVars, rateVars>>

\* the process starts with any combination of the two secrets
InitBoot ==
    /\ now = 0
    /\ env = Undefined
    /\ boot \in [phase : {"start"}, anthropicApiKey : SecretValues("sk-ant-1"),
                 jwtSecret : SecretValues("s3cret"), error : {Undefined}]
    /\ store = EmptyStore
    /\ InitRequests
    /\ InitRateGhosts

NextBoot ==
    \/ \E mr \in MaxRequestsSettings, w \in WindowMsSettings, ne \in NodeEnvSettings,
          lt \in BOOLEAN : loadEnvConfig(mr, w, ne, lt)
    \/ createServer
    \/ \E bound \in BOOLEAN : listen(bound)

SpecBoot == InitBoot /\ [][NextBoot]_vars

SecretAbsent == ~Truthy(boot.anthropicApiKey) \/ ~Truthy(boot.jwtSecret)

\* C21: when ANTHROPIC_API_KEY or JWT_SECRET is absent the configuration is never
\* loaded and startup never gets past the failed load, so the server listens only
\* when both secrets are present
C21_MissingSecretNeverListens ==
    /\ SecretAbsent => boot.phase \in {"start", "crashed"} /\ env = Undefined
    /\ boot.phase = "crashed" => SecretAbsent /\ Truthy(boot.error)
    /\ boot.phase = "listening" => ~SecretAbsent

\* the load failed on the missing JWT_SECRET alone
C21_Witness ==
    /\ boot.phase = "crashed"
    /\ Truthy(boot.anthropicApiKey)
    /\ ~Truthy(boot.jwtSecret)
    /\ boot.error = "JWT_SECRET is required"

\* the 500 of the route's catch is what request r was answered with
AnsweredFailure(r) ==
    /\ raised[r].thrown
    /\ Sent(r)
    /\ responses[r][1].statusCode = 500

\* C22: the 500 that answers a failed chat request carries, in production, the fixed
\* text 'Failed to process chat request' whatever the stream threw, and outside
\* production the message of the Error thrown ('Unknown error' when the value thrown
\* is not an Error)
C22_ProductionFailureMessageFixed ==
    \A r \in Reqs :
        AnsweredFailure(r) =>
            responses[r][1].body.message =
                IF env.nodeEnv = "production" THEN "Failed to process chat request"
                ELSE IF raised[r].isError THEN raised[r].message
                ELSE "Unknown error"

\* in production a stream that threw Error('boom') was answered with the fixed text
C22_Witness ==
    \E r \in Reqs :
        /\ AnsweredFailure(r)
        /\ env.nodeEnv = "production"
        /\ raised[r] = Thrown(TRUE, "boom")
        /\ responses[r][1].body.message = "Failed to process chat request"

\* request r is a POST /chat/stream
IsStream(r) == request[r].route = "/chat/stream"

\* C23: the handler of POST /chat/stream answers 501 Not Implemented for every request
\* that reaches it (the write is dropped only if the request timer had already answered)
\* and a request on that route never invokes the runtime
C23_StreamRouteAnswers501 ==
    [][\A r \in Reqs :
          /\ (IsStream(r) /\ pc[r] = "handler" /\ pc'[r] # "handler") =>
                /\ pc'[r] = "done"
                /\ responses'[r] = IF Sent(r) THEN responses[r]
                                   ELSE <<Reply(501, NotImplementedBody(now))>>
          /\ IsStream(r)' =>
                /\ queryCalls'[r] = 0
                /\ events'[r] = <<>>
                /\ ~raised'[r].thrown
                /\ pc'[r] \notin {"streaming", "failed"}]_vars

\* a POST /chat/stream went through its handler and was answered 501
C23_Witness ==
    \E r \in Reqs :
        /\ IsStream(r)
        /\ pc[r] = "done"
        /\ auth[r].set
        /\ StatusOf(r) = 501
        /\ responses[r][1].body.error = "Not Implemented"

\* C24: the stages of a request run in the order authentication, rate-limit check,
\* payload validation, and a request that fails a stage is answered by it and never
\* reaches a later one: a request whose credential does not verify consumes no
\* rate-limit budget and is answered by neither the limiter (429) nor the validator (400)
C24_StagesRunAuthLimitValidate ==
    \A r \in Reqs :
        (request[r].route = "/chat" /\ pc[r] # "idle" /\ CredentialBad(r)) =>
            /\ store = ExhaustedStore(BusyIp, DefaultMaxRequests, DefaultWindowMs)
            /\ StatusOf(r) \notin {400, 429}

\* C25: when the connection of a request closes before its timer has fired, the
\* timer is cleared and its callback never runs: from the close on no 408 is written
\* for the request (and none is attempted)
C25_NoTimeoutAfterClose ==
    [][\A r \in Reqs :
          /\ (~closed[r] /\ closed'[r] /\ timer[r].state = "armed")
                => timer'[r].state = "cleared"
          /\ (closed[r] /\ timer[r].state # "fired") =>
                /\ timer'[r].state # "fired"
                /\ \A i \in 1..Len(responses'[r]) :
                      responses'[r][i].statusCode = 408 => i <= Len(responses[r])
                /\ StatusOf(r)' # 408]_vars

\* the connection closed while the timer was armed, and the deadline has passed
C25_Witness ==
    \E r \in Reqs :
        /\ closed[r]
        /\ timer[r].state = "cleared"
        /\ now >= timer[r].deadline
        /\ StatusOf(r) # 408

(***************************************************************************)
(* Claims about the tool-call list during the stream (SpecAgg)             *)
(***************************************************************************)
\* C26: once a tool-call record has been resolved by a tool-end event (its output or
\* its error is set), no later event of the same stream changes it, so each record is
\* mutated at most once.
C26_ResolvedRecordNeverChanges ==
    [][\A r \in Reqs : \A i \in 1..Len(toolCalls[r]) :
          ~IsOpen(toolCalls[r][i]) =>
              /\ i <= Len(toolCalls'[r])
              /\ toolCalls'[r][i] = toolCalls[r][i]]_vars

\* the name and input of each tool-start event of evs, in arrival order
RECURSIVE StartsOf(_)
StartsOf(evs) ==
    IF evs = <<>> THEN <<>>
    ELSE (IF Head(evs).type = "tool_start"
          THEN <<[name |-> Head(evs).toolName, input |-> Head(evs).input]>>
          ELSE <<>>)
         \o StartsOf(Tail(evs))

\* the name and input of each record of calls, in list order
NamesAndInputs(calls) ==
    [i \in 1..Len(calls) |-> [name |-> calls[i].name, input |-> calls[i].input]]

\* C27: after any prefix of the event sequence the tool-call list holds exactly one
\* record per tool-start consumed so far, in arrival order and with the name and input
\* of its start (starts of the same name give separate records); so tool-end and
\* content events never add, remove or reorder records
C27_OneRecordPerToolStart ==
    \A r \in Reqs : NamesAndInputs(toolCalls[r]) = StartsOf(events[r])

\* two starts of the same name, a tool-end and a content fragment: two records
C27_Witness ==
    \E r \in Reqs :
        /\ Len(events[r]) = 4
        /\ events[r][1] = ToolStart("A", "in1")
        /\ events[r][2].type = "tool_end"
        /\ events[r][3].type = "tool_start" /\ events[r][3].toolName = "A"
        /\ events[r][4].type = "assistant"
        /\ Len(toolCalls[r]) = 2
        /\ toolCalls[r][1].name = "A" /\ toolCalls[r][2].name = "A"

\* the step writes the 200 ChatResponse of request r
SendsChatResponse(r) ==
    /\ Len(responses'[r]) = Len(responses[r]) + 1
    /\ Last(responses'[r]).statusCode = 200

\* C28: the ChatResponse is built and sent exactly once and only when the stream has
\* ended: the step that sends it ends the loop, no event is consumed and no response
\* written after it, and it reflects every event consumed, in order (its content is
\* the text of all fragments, its tool calls the records of all tool-starts)
C28_ResponseOnlyAfterStreamEnd ==
    [][\A r \in Reqs :
          /\ SendsChatResponse(r) =>
                /\ pc[r] = "streaming" /\ pc'[r] = "done"
                /\ responses[r] = <<>>
                /\ events'[r] = events[r]
                /\ LET body == Last(responses'[r]).body IN
                   /\ body.content = FragmentsText(events[r])
                   /\ IF HasToolStart(r)
                      THEN /\ body.toolCalls = toolCalls[r]
                           /\ NamesAndInputs(body.toolCalls) = StartsOf(events[r])
                      ELSE "toolCalls" \notin DOMAIN body
          /\ StatusOf(r) = 200 =>
                /\ pc[r] = "done"
                /\ events'[r] = events[r]
                /\ responses'[r] = responses[r]]_vars

\* the response was sent after four events, the last one a content fragment
C28_Witness ==
    \E r \in Reqs :
        /\ Succeeded(r)
        /\ Len(responses[r]) = 1
        /\ Len(events[r]) = MaxEvents
        /\ Last(events[r]).type = "assistant"
        /\ HasToolStart(r)
        /\ responses[r][1].body.content = FragmentsText(events[r])

(***************************************************************************)
(* optionalAuthMiddleware (middleware/errorHandler.ts), as a preHandler    *)
(***************************************************************************)
\* mutant: the Error of verifyToken is not caught
optionalAuthOutcomeUncaught(authHeader) ==
    IF ~Truthy(authHeader) THEN [auth |-> NoAuth, verified |-> <<>>, raises |-> FALSE]
    ELSE LET parts == Split(authHeader) IN
         IF Len(parts) = 2 /\ parts[1] = "Bearer"
         THEN LET v == verifyToken(parts[2])
              IN  [auth |-> v.auth, verified |-> <<parts[2]>>, raises |-> ~v.ok]
         ELSE [auth |-> NoAuth, verified |-> <<>>, raises |-> FALSE]

\* optionalAuthMiddleware's outcome on a header: the auth context it attaches, the
\* token it verified, and whether an Error leaves the function (the catch is empty)
optionalAuthOutcome(authHeader) ==
    IF ~Truthy(authHeader) THEN [auth |-> NoAuth, verified |-> <<>>, raises |-> FALSE]
    ELSE LET parts == Split(authHeader) IN
         IF Len(parts) = 2 /\ parts[1] = "Bearer"
         THEN LET v == verifyToken(parts[2])
              IN  [auth |-> v.auth, verified |-> <<parts[2]>>, raises |-> FALSE]
         ELSE [auth |-> NoAuth, verified |-> <<>>, raises |-> FALSE]

\* the hook runs on request r; an Error leaving a hook goes to errorHandler
optionalAuthMiddleware(r) ==
    /\ pc[r] = "preHandler"
    /\ IF Sent(r)
       THEN /\ Goto(r, "done")
            /\ UNCHANGED <<auth, verifyCalls, responses, dropped>>
       ELSE LET out == optionalAuthOutcome(request[r].authorization) IN
            /\ verifyCalls' = [verifyCalls EXCEPT ![r] = @ \o out.verified]
            /\ IF out.raises
               THEN LET rep == errorHandlerReply(
                                  ErrorObject("Error", verifyToken(out.verified[1]).message,
                                              0, FALSE), env.nodeEnv, now)
                    IN  /\ ReplySend(r, rep.statusCode, rep.body)
                        /\ Goto(r, "done")
                        /\ UNCHANGED auth
               ELSE /\ auth' = [auth EXCEPT ![r] = out.auth]
                    /\ Goto(r, "handler")
                    /\ UNCHANGED <<responses, dropped>>
    /\ UNCHANGED <<now, env, boot, store, request, timer, closed, prompt,
                   fullResponse, toolCalls, events, queryCalls, raised, rateVars>>

\* a route that registers optionalAuthMiddleware: the request has passed the limiter
\* and the validation and is at the preHandler hooks
InitOptional ==
    /\ now = 0
    /\ boot = Started
    /\ env \in { EnvConfig(DefaultMaxRequests, DefaultWindowMs, ne, FALSE) :
                   ne \in {"production", "development"} }
    /\ store = EmptyStore
    /\ pc = [r \in AllReqs |-> IF r \in Reqs THEN "preHandler" ELSE "idle"]
    /\ \E req \in Requests :
          request = [r \in AllReqs |-> IF r \in Reqs THEN req ELSE NoRequest]
    /\ timer = [r \in AllReqs |-> IF r \in Reqs
                                  THEN [state |-> "armed", deadline |-> RequestTimeoutMs]
                                  ELSE TimerUnset]
    /\ closed = [r \in AllReqs |-> FALSE]
    /\ auth = [r \in AllReqs |-> NoAuth]
    /\ verifyCalls = [r \in AllReqs |-> <<>>]
    /\ responses = [r \in AllReqs |-> <<>>]
    /\ dropped = [r \in AllReqs |-> 0]
    /\ prompt = [r \in AllReqs |-> ""]
    /\ fullResponse = [r \in AllReqs |-> ""]
    /\ toolCalls = [r \in AllReqs |-> <<>>]
    /\ events = [r \in AllReqs |-> <<>>]
    /\ queryCalls = [r \in AllReqs |-> 0]
    /\ raised = [r \in AllReqs |-> NoThrow]
    /\ InitRateGhosts

NextOptional ==
    \/ Tick
    \/ \E r \in Reqs :
          \/ timeoutFire(r)
          \/ clientClose(r)
          \/ optionalAuthMiddleware(r)

SpecOptional == InitOptional /\ [][NextOptional]_vars

\* C29: optionalAuthMiddleware never sends an error response and never raises: the
\* request goes on to the handler whatever its header is, with request.auth set to the
\* verified identity when the header is 'Bearer <token>' and the token verifies, and
\* unset when the header is absent or mis-shaped or the token fails verification
C29_OptionalAuthNeverRejects ==
    [][\A r \in Reqs :
          (pc[r] = "preHandler" /\ pc'[r] # "preHandler" /\ ~Sent(r)) =>
              /\ pc'[r] = "handler"
              /\ responses'[r] = <<>>
              /\ auth'[r] = IF authOutcome(request[r].authorization).ok
                            THEN authOutcome(request[r].authorization).auth
                            ELSE NoAuth
              /\ auth'[r].set <=> request[r].authorization = GoodHeader]_vars

\* a request with an expired token went on to the handler with no identity
C29_Witness ==
    \E r \in Reqs :
        /\ request[r].authorization = "Bearer tokExpired"
        /\ pc[r] = "handler"
        /\ verifyCalls[r] = <<"tokExpired">>
        /\ ~auth[r].set
        /\ responses[r] = <<>>

\* the step consumes an event of request r whose kind is none of the three known ones
ConsumesUnknownKind(r) ==
    /\ Len(events'[r]) = Len(events[r]) + 1
    /\ Last(events'[r]).type \notin {"assistant", "tool_start", "tool_end"}

\* C30: a runtime event whose kind is none of content fragment, tool-start and
\* tool-end is ignored: the loop goes on without raising, and the output buffer and
\* the tool-call list are the same after the event as before it
C30_UnknownEventKindIgnored ==
    [][\A r \in Reqs :
          ConsumesUnknownKind(r) =>
              /\ fullResponse'[r] = fullResponse[r]
              /\ toolCalls'[r] = toolCalls[r]
              /\ pc'[r] = "streaming"
              /\ ~raised'[r].thrown
              /\ responses'[r] = responses[r]]_vars

\* an event of kind 'result' was consumed between a fragment and a tool-start, and the
\* stream went on to its end
C30_Witness ==
    \E r \in Reqs :
        /\ Succeeded(r)
        /\ Len(events[r]) = 3
        /\ events[r][1].type = "assistant"
        /\ events[r][2] = OtherEvent("result")
        /\ events[r][3].type = "tool_start"
        /\ responses[r][1].body.content = BlocksText(events[r][1].blocks)
        /\ Len(responses[r][1].body.toolCalls) = 1

(***************************************************************************)
(* Claims about disconnects, responses and the timer (Spec, SpecLive)      *)
(***************************************************************************)
\* C31: when the client disconnects while the event sequence of a chat request is
\* being consumed, the runtime iteration is torn down: no further event of the request
\* is consumed after the disconnect.
C31_DisconnectStopsConsumption ==
    [][\A r \in Reqs :
          (closed[r] /\ pc[r] = "streaming") => events'[r] = events[r]]_vars

\* request.raw emits 'close' although the client stays connected: since Node 16 an
\* IncomingMessage emits it when the request has been read to its end, which for a
\* POST is once the body was parsed (after the onRequest hooks); before Node 16 only
\* the closing of the socket emits it. The listener of timeoutHandler is the same.
requestCompleted(r) ==
    /\ pc[r] \notin {"idle", "rateLimit"}
    /\ clientClose(r)

\* the chat requests of the liveness specification
LiveRequests ==
    { [ip |-> ip, route |-> "/chat", authorization |-> h, body |-> b] :
        ip \in HttpIps, h \in AuthHeaders, b \in CoreBodies }

\* requests whose clients stay connected; a request arrives early enough for its
\* deadline to lie within the time the model lets pass
NextLive ==
    \/ Tick
    \/ \E r \in Reqs :
          \/ \E req \in LiveRequests :
                /\ now + RequestTimeoutMs <= MaxTicks * TickMs
                /\ timeoutHandler(r, req)
          \/ timeoutFire(r)
          \/ requestCompleted(r)
          \/ rateLimitHook(r)
          \/ validateBody(r)
          \/ authMiddleware(r)
          \/ chatHandler(r)
          \/ \E e \in HttpEvents : Len(events[r]) < MaxHttpEvents /\ chatStep(r, e)
          \/ \E rnd \in RandomSuffixes : chatReturn(r, rnd)
          \/ \E m \in RuntimeErrors : chatThrow(r, m)

\* the event loop is fair to time, to the timer callbacks and to the steps of the
\* request lifecycle; the runtime's stream may stay silent for ever
FairLive ==
    /\ WF_vars(Tick)
    /\ \A r \in Reqs :
          /\ WF_vars(timeoutFire(r))
          /\ WF_vars(rateLimitHook(r))
          /\ WF_vars(validateBody(r))
          /\ WF_vars(authMiddleware(r))
          /\ WF_vars(chatHandler(r))

SpecLive == Init /\ [][NextLive]_vars /\ FairLive

\* C32: every chat request whose client stays connected eventually receives a
\* response: the handler's 200 or 500 when the stream ends or raises, and the 408 of
\* the timer when the stream never ends.
C32_ConnectedRequestEventuallyAnswered ==
    \A r \in Reqs : [](pc[r] # "idle" => <>Sent(r))

\* request r was answered by a handler or a middleware, not by the timer
AnsweredByStage(r) == Sent(r) /\ responses[r][1].statusCode # 408

\* C33: once a handler or a middleware has sent the response of a request before the
\* timer fired, the timer never writes a 408 for it: when its callback runs the write
\* is dropped, and what the client received stays that one response
C33_NoTimeoutAfterResponse ==
    [][\A r \in Reqs :
          AnsweredByStage(r) =>
              /\ \A i \in 1..Len(responses'[r]) : responses'[r][i].statusCode # 408
              /\ Len(responses'[r]) = 1
              /\ (timer[r].state = "armed" /\ timer'[r].state = "fired")
                    => dropped'[r] = dropped[r] + 1]_vars

\* the timer fired after the handler had answered 200, and its 408 was dropped
C33_Witness ==
    \E r \in Reqs :
        /\ StatusOf(r) = 200
        /\ timer[r].state = "fired"
        /\ dropped[r] = 1
        /\ Len(responses[r]) = 1
====
